---- MODULE Spec2Model ----
(***************************************************************************)
(* Model of the analysis operations of LBS2019_graphs (src/3_analysis).   *)
(*                                                                         *)
(* The program is a single-threaded batch pipeline of library calls.  One *)
(* state of the model is one call of one operation: the arguments as the  *)
(* caller holds them before the call (args), the same objects after the   *)
(* call (post), what the external libraries returned during the call      *)
(* (lib) and the call's return value or exception (out).                   *)
(*                                                                         *)
(* Numbers: feature values and counts are small integers; a mean is kept   *)
(* as the exact fraction sum/len; a p-value is kept in thousandths.        *)
(***************************************************************************)
EXTENDS Integers, Sequences, FiniteSets, TLC

VARIABLES pc, op, args, post, lib, out

vars == <<pc, op, args, post, lib, out>>

(***************************************************************************)
(* Bounds of the model.                                                    *)
(***************************************************************************)
NRows == 3
MaxVal == 2
MaxFeatures == 3
MaxUsers == 2
MaxCategories == 3
MaxCount == 2
MaxLabels == 2
MaxImportance == 2

(***************************************************************************)
(* Generic helpers (numpy / pandas primitives).                            *)
(***************************************************************************)
Range(s) == {s[i] : i \in DOMAIN s}

RECURSIVE SeqSum(_)
SeqSum(s) == IF s = <<>> THEN 0 ELSE Head(s) + SeqSum(Tail(s))

Min(S) == CHOOSE x \in S : \A y \in S : x <= y

\* np.unique: the sorted distinct values.
RECURSIVE np_unique(_)
np_unique(S) == IF S = {} THEN <<>> ELSE <<Min(S)>> \o np_unique(S \ {Min(S)})

\* Boolean-mask selection: the entries of s at the positions where mask holds,
\* in their original order.
RECURSIVE SelectMask(_, _)
SelectMask(s, mask) ==
    IF s = <<>> THEN <<>>
    ELSE (IF Head(mask) THEN <<Head(s)>> ELSE <<>>) \o SelectMask(Tail(s), Tail(mask))

\* np.mean: sum/len as an exact fraction; NaN for an empty array.
np_mean(s) ==
    IF s = <<>> THEN [nan |-> TRUE, num |-> 0, den |-> 1]
    ELSE [nan |-> FALSE, num |-> SeqSum(s), den |-> Len(s)]

\* a < b on floats: False whenever an operand is NaN.
MeanLess(a, b) == ~a.nan /\ ~b.nan /\ a.num * b.den < b.num * a.den

\* np.sort of a sequence of integers.
RECURSIVE np_sort(_)
np_sort(s) ==
    IF s = <<>> THEN <<>>
    ELSE LET i == CHOOSE k \in DOMAIN s : \A l \in DOMAIN s : s[k] <= s[l]
         IN <<s[i]>> \o np_sort(SubSeq(s, 1, i - 1) \o SubSeq(s, i + 1, Len(s)))

\* All sequences over S of length n.
SeqsOfLen(S, n) == [1..n -> S]

(***************************************************************************)
(* Feature tables (pandas DataFrame): the row index, the column names in   *)
(* order, and one value sequence per column.                               *)
(***************************************************************************)
Table(index, columns, data) == [index |-> index, columns |-> columns, data |-> data]

\* DataFrame.copy(): a new object with the same content.
Copy(t) == [index |-> t.index, columns |-> t.columns, data |-> t.data]

\* df[name] = array: positional assignment of a whole column; a new column is
\* appended, an existing one replaced; a length mismatch raises ValueError.
SetColumn(t, name, vals) ==
    IF Len(vals) # Len(t.index)
    THEN [error |-> "ValueError", table |-> t]
    ELSE [error |-> "none",
          table |-> [index |-> t.index,
                     columns |-> IF name \in Range(t.columns) THEN t.columns
                                 ELSE Append(t.columns, name),
                     data |-> [c \in Range(t.columns) \cup {name} |->
                                   IF c = name THEN vals ELSE t.data[c]]]]

\* Python dict item assignment d[k] = v, the dict kept as a set of <<k, v>>.
DictSet(d, k, v) == {e \in d : e[1] # k} \cup {<<k, v>>}

(***************************************************************************)
(* cluster_characteristics (analyze_graph_vs_raw.py)                       *)
(***************************************************************************)
interpret_dict ==
    {"mean_distance_random_walk", "cycle_length_mu", "cycle_length_sigma",
     "core_periphery_random_walk", "ratio_nodes_random_walk",
     "simple_powerlaw_transitions"}

\* The column names of the model.
ColumnOrder == <<"cycle_length_mu", "degree_beta", "waiting_time_mean", "waiting_time_std">>

\* "waiting_time" in column, over the column names of the model.
ContainsWaitingTime(column) == column \in {"waiting_time_mean", "waiting_time_std"}

\* Outcomes of scipy.stats.mannwhitneyu: a p-value (in thousandths), a NaN
\* p-value, or a raised ValueError.
PValue(p) == [kind |-> "value", p |-> p]
PNaN == [kind |-> "nan", p |-> 0]
PRaise == [kind |-> "raise", p |-> 0]
PValues == {10, 50, 1000}

AllIdentical(s) == \A i, j \in DOMAIN s : s[i] = s[j]

\* What the test can return for the samples x and y.  The library is not part
\* of the repository and its version is not pinned: with samples that are all
\* one value it raises, returns NaN or returns 1.0 depending on the version;
\* with an empty sample it raises or returns NaN; otherwise it returns a
\* p-value, which the model leaves open.
mannwhitneyu(x, y) ==
    IF x = <<>> \/ y = <<>> THEN {PRaise, PNaN}
    ELSE IF AllIdentical(x \o y) THEN {PRaise, PNaN, PValue(1000)}
    ELSE {PValue(p) : p \in PValues}

\* Variants of the test of line 81: p_value <= 0.05, and not p_value >= 0.05
\* (which lets a NaN through).
P_LessEq(pv) == pv.kind = "value" /\ pv.p <= 50
P_NotGreaterEq(pv) == ~(pv.kind = "value" /\ pv.p >= 50)
\* Line 81: p_value < 0.05 (p in thousandths); a comparison with NaN is False.
Significant(pv) == pv.kind = "value" /\ pv.p < 50

\* features.loc[features["cluster"] == cluster, column] and its complement.
ThisCluster(features, cluster, column) ==
    SelectMask(features.data[column],
               [i \in DOMAIN features.index |-> features.data["cluster"][i] = cluster])

OtherClusters(features, cluster, column) ==
    SelectMask(features.data[column],
               [i \in DOMAIN features.index |-> features.data["cluster"][i] # cluster])

\* Variant of line 80: "high" if the mean inside exceeds the mean outside,
\* else "low".
DirectionStrict(this_cluster, other_clusters) ==
    IF MeanLess(np_mean(other_clusters), np_mean(this_cluster)) THEN "high" ELSE "low"
\* Line 80: "low" if the mean inside is below the mean outside, else "high".
Direction(this_cluster, other_clusters) ==
    IF MeanLess(np_mean(this_cluster), np_mean(other_clusters)) THEN "low" ELSE "high"

\* Line 70-73: the columns the loop passes over without testing them.
Skipped(column) ==
    \/ column = "cluster"
    \/ ContainsWaitingTime(column) /\ column # "waiting_time_mean"

\* The two samples of a test, as a key: the test of a column for one cluster
\* of a two-cluster labelling compares the same two samples as the test for
\* the other cluster, and the library returns the same p-value for both.
SampleKey(features, cluster, column) ==
    <<column,
      {{i \in DOMAIN features.index : features.data["cluster"][i] = cluster},
       {i \in DOMAIN features.index : features.data["cluster"][i] # cluster}}>>

\* An accumulator of the loop: the exception raised so far ("none" if none),
\* the characteristics dict, and the p-value of every test made (tests).
\* One (cluster, column) iteration, lines 68-87.  The result is the set of
\* accumulators the iteration can end in, one per outcome of the test.
ColumnStep(acc, features, cluster, column) ==
    IF acc.error # "none" \/ Skipped(column) THEN {acc}
    ELSE
      LET this_cluster == ThisCluster(features, cluster, column)
          other_clusters == OtherClusters(features, cluster, column)
          key == SampleKey(features, cluster, column)
          earlier == {t \in DOMAIN acc.tests :
                         SampleKey(features, t[1], t[2]) = key}
          outcomes == IF earlier = {}
                      THEN mannwhitneyu(this_cluster, other_clusters)
                      ELSE {acc.tests[t] : t \in earlier}
          direction == Direction(this_cluster, other_clusters)
          logged(pv) == [t \in DOMAIN acc.tests \cup {<<cluster, column>>} |->
                            IF t = <<cluster, column>> THEN pv ELSE acc.tests[t]]
      IN { IF pv.kind = "raise"
           THEN [acc EXCEPT !.error = "ValueError", !.tests = logged(pv)]
           ELSE IF Significant(pv)
           THEN IF column \notin interpret_dict
                THEN [acc EXCEPT !.error = "KeyError", !.tests = logged(pv)]
                ELSE [acc EXCEPT !.tests = logged(pv),
                                 !.characteristics =
                                     [c \in DOMAIN acc.characteristics |->
                                         IF c = cluster
                                         THEN DictSet(acc.characteristics[c], column, direction)
                                         ELSE acc.characteristics[c]]]
           ELSE [acc EXCEPT !.tests = logged(pv)]
         : pv \in outcomes }

RECURSIVE ColumnLoop(_, _, _, _)
ColumnLoop(accs, features, cluster, j) ==
    IF j > Len(features.columns) THEN accs
    ELSE ColumnLoop(UNION {ColumnStep(a, features, cluster, features.columns[j]) : a \in accs},
                    features, cluster, j + 1)

\* Line 67: characteristics[cluster] = {}.
OpenCluster(acc, cluster) ==
    IF acc.error # "none" THEN acc
    ELSE [acc EXCEPT !.characteristics =
              [c \in DOMAIN acc.characteristics \cup {cluster} |->
                  IF c = cluster THEN {} ELSE acc.characteristics[c]]]

RECURSIVE ClusterLoop(_, _, _, _)
ClusterLoop(accs, features, clusters, i) ==
    IF i > Len(clusters) THEN accs
    ELSE ClusterLoop(ColumnLoop({OpenCluster(a, clusters[i]) : a \in accs},
                                features, clusters[i], 1),
                     features, clusters, i + 1)

NoTests == [t \in {} |-> PNaN]
NoCharacteristics == [c \in {} |-> {}]

\* The set of results of cluster_characteristics(in_features, cluster_labels):
\* each result holds the exception ("none" when the call returns), the returned
\* characteristics, the tests made, and the caller's in_features after the call.
cluster_characteristics(in_features, cluster_labels) ==
    LET features0 == Copy(in_features)
        attached == IF cluster_labels.kind # "none"
                    THEN SetColumn(features0, "cluster", cluster_labels.vals)
                    ELSE [error |-> "none", table |-> features0]
        features == attached.table
        failed(e) == {[error |-> e, characteristics |-> NoCharacteristics,
                       tests |-> NoTests, in_features |-> in_features]}
    IN IF attached.error # "none" THEN failed(attached.error)
       ELSE IF "cluster" \notin Range(features.columns) THEN failed("KeyError")
       ELSE { [error |-> a.error,
               characteristics |-> IF a.error = "none" THEN a.characteristics
                                   ELSE NoCharacteristics,
               tests |-> a.tests,
               in_features |-> in_features]
              : a \in ClusterLoop({[error |-> "none",
                                    characteristics |-> NoCharacteristics,
                                    tests |-> NoTests]},
                                  features, np_unique(Range(features.data["cluster"])), 1) }

\* The feature tables of the model, users numbered from 1: one column of NRows
\* rows with values 0..MaxVal, or two columns of NRows - 1 rows with values 0, 1.
UserIndex(n) == [i \in 1..n |-> i]

TablesOver(columns, values, n) ==
    { Table(UserIndex(n), columns, d) : d \in [Range(columns) -> SeqsOfLen(values, n)] }

OneColumnTables ==
    UNION { TablesOver(<<ColumnOrder[i]>>, 0..MaxVal, NRows) : i \in DOMAIN ColumnOrder }

TwoColumnTables ==
    UNION { TablesOver(<<ColumnOrder[ij[1]], ColumnOrder[ij[2]]>>, {0, 1}, NRows - 1)
            : ij \in {p \in (DOMAIN ColumnOrder) \X (DOMAIN ColumnOrder) : p[1] # p[2]} }

FeatureTables == OneColumnTables \cup TwoColumnTables

ArrayLabels(vals) == [kind |-> "array", vals |-> vals]
NoLabels == [kind |-> "none", vals |-> <<>>]

\* Cluster labels as k-means returns them (one per row), and one label short.
LabelArrays ==
    { ArrayLabels(v) : v \in SeqsOfLen({0, 1}, NRows) \cup SeqsOfLen({0, 1}, NRows - 1) }

InitCC ==
    /\ pc = "ready"
    /\ op = "cluster_characteristics"
    /\ args \in [in_features : FeatureTables, cluster_labels : LabelArrays \cup {NoLabels}]
    /\ post = args
    /\ lib = NoTests
    /\ out = [error |-> "none", value |-> NoCharacteristics]

CallClusterCharacteristics ==
    /\ pc = "ready"
    /\ op = "cluster_characteristics"
    /\ \E r \in cluster_characteristics(args.in_features, args.cluster_labels) :
          /\ out' = [error |-> r.error, value |-> r.characteristics]
          /\ lib' = r.tests
          /\ post' = [args EXCEPT !.in_features = r.in_features]
    /\ pc' = "done"
    /\ UNCHANGED <<op, args>>

NextCC == CallClusterCharacteristics

SpecCC == InitCC /\ [][NextCC]_vars

(***************************************************************************)
(* Properties of cluster_characteristics.                                  *)
(***************************************************************************)
CCDone == pc = "done" /\ op = "cluster_characteristics"

\* The call attached its labels: the table the loop ran over.
CCAttached ==
    /\ CCDone
    /\ args.cluster_labels.kind = "array"
    /\ Len(args.cluster_labels.vals) = Len(args.in_features.index)

CCFeatures == SetColumn(args.in_features, "cluster", args.cluster_labels.vals).table

CCClusters == np_unique(Range(args.cluster_labels.vals))

\* The <<cluster, column, tag>> entries of the returned mapping.
CCRecorded == UNION {{<<c, e[1], e[2]>> : e \in out.value[c]} : c \in DOMAIN out.value}

\* C1: the returned mapping holds at most one direction tag per (cluster,
\* feature) pair, every tag is "high" or "low", and a pair has a tag only if
\* the p-value computed for that pair was below 0.05 (50 thousandths).
C1_TagOnlyIfSignificant ==
    CCDone =>
        /\ \A r1, r2 \in CCRecorded : r1[1] = r2[1] /\ r1[2] = r2[2] => r1[3] = r2[3]
        /\ \A r \in CCRecorded :
              /\ r[3] \in {"high", "low"}
              /\ <<r[1], r[2]>> \in DOMAIN lib
              /\ lib[<<r[1], r[2]>>].kind = "value"
              /\ lib[<<r[1], r[2]>>].p < 50

\* A call that returned a tag for one pair and left out a tested pair whose
\* p-value was 0.05 or more.
C1_Witness ==
    /\ CCDone
    /\ out.error = "none"
    /\ CCRecorded # {}
    /\ \E t \in DOMAIN lib :
          /\ lib[t].kind = "value" /\ lib[t].p >= 50
          /\ \A r \in CCRecorded : <<r[1], r[2]>> # t

\* The means of a feature inside and outside a cluster.
CCMeanIn(c, column) == np_mean(ThisCluster(CCFeatures, c, column))
CCMeanOut(c, column) == np_mean(OtherClusters(CCFeatures, c, column))

\* Both samples of the pair have rows, so both means exist.
CCBothMeans(c, column) == ~CCMeanIn(c, column).nan /\ ~CCMeanOut(c, column).nan

\* C2 as stated: the tag of a recorded pair is "high" if the mean inside the
\* cluster exceeds the mean outside, and "low" otherwise, equal means included.
C2_HighIffExceeds ==
    CCAttached =>
        \A r \in CCRecorded :
            CCBothMeans(r[1], r[2]) =>
                r[3] = (IF MeanLess(CCMeanOut(r[1], r[2]), CCMeanIn(r[1], r[2]))
                        THEN "high" ELSE "low")

\* C2 amended: the tag of a recorded pair is "low" if the mean inside the
\* cluster is below the mean outside, and "high" otherwise, equal means included.
C2_LowIffBelow ==
    CCAttached =>
        \A r \in CCRecorded :
            CCBothMeans(r[1], r[2]) =>
                r[3] = (IF MeanLess(CCMeanIn(r[1], r[2]), CCMeanOut(r[1], r[2]))
                        THEN "low" ELSE "high")

\* A recorded pair whose two samples differ and have equal means: it is
\* tagged "high".
C2_Witness ==
    /\ CCAttached
    /\ \E r \in CCRecorded :
          /\ CCBothMeans(r[1], r[2])
          /\ CCMeanIn(r[1], r[2]).num * CCMeanOut(r[1], r[2]).den
                = CCMeanOut(r[1], r[2]).num * CCMeanIn(r[1], r[2]).den
          /\ ~AllIdentical(args.in_features.data[r[2]])
          /\ r[3] = "high"

\* C3: every feature column is tested against every cluster id of the labels,
\* and every pair with p < 0.05 is recorded and the call completes without
\* error (no test of the call having raised).
C3_EveryColumnTested ==
    (CCAttached /\ \A t \in DOMAIN lib : lib[t].kind # "raise") =>
        /\ out.error = "none"
        /\ \A c \in Range(CCClusters), column \in Range(args.in_features.columns) :
              /\ <<c, column>> \in DOMAIN lib
              /\ (lib[<<c, column>>].kind = "value" /\ lib[<<c, column>>].p < 50)
                    => \E r \in CCRecorded : r[1] = c /\ r[2] = column

\* The (cluster, column) pairs the loop tests, in loop order.
RECURSIVE CCPairsFrom(_, _)
CCPairsFrom(i, j) ==
    IF i > Len(CCClusters) THEN <<>>
    ELSE IF j > Len(CCFeatures.columns) THEN CCPairsFrom(i + 1, 1)
    ELSE (IF CCFeatures.columns[j] = "cluster"
             \/ CCFeatures.columns[j] = "waiting_time_std"
          THEN <<>> ELSE << <<CCClusters[i], CCFeatures.columns[j]>> >>)
         \o CCPairsFrom(i, j + 1)

CCPairs == CCPairsFrom(1, 1)

\* C10: a tested pair whose p-value is NaN is left out of the result and
\* raises nothing: the loop goes on to the next pair, and when the NaN pair is
\* the last one the call returns.
C10_NaNIsNotSignificant ==
    CCAttached =>
        \A k \in DOMAIN CCPairs :
            (CCPairs[k] \in DOMAIN lib /\ lib[CCPairs[k]].kind = "nan") =>
                /\ \A r \in CCRecorded : <<r[1], r[2]>> # CCPairs[k]
                /\ IF k < Len(CCPairs) THEN CCPairs[k + 1] \in DOMAIN lib
                   ELSE out.error = "none"

\* A call over two clusters and two tested columns, one of which has one value
\* in every row: its test gave NaN, the pair after it was still tested and
\* recorded, and the call returned.
C10_Witness ==
    /\ CCAttached
    /\ out.error = "none"
    /\ Len(CCClusters) = 2
    /\ \E k \in DOMAIN CCPairs :
          /\ k < Len(CCPairs)
          /\ lib[CCPairs[k]].kind = "nan"
          /\ AllIdentical(args.in_features.data[CCPairs[k][2]])
          /\ \E r \in CCRecorded : <<r[1], r[2]>> = CCPairs[k + 1]

(***************************************************************************)
(* returner_explorers (analyze_graph_vs_raw.py)                            *)
(***************************************************************************)
\* A row of the returner file: a user id and its k_returner, which may be
\* missing (NaN).
KRow(user, nan, k) == [user_id |-> user, nan |-> nan, k_returner |-> k]

\* Line 136: missing k_returner values are set to 50.
FillNa(rows) ==
    [i \in DOMAIN rows |-> IF rows[i].nan THEN KRow(rows[i].user_id, FALSE, 50) ELSE rows[i]]

\* Twice np.median of a non-empty array (the median itself may be a half).
TwiceMedian(values) ==
    LET sorted == np_sort(values)
        n == Len(sorted)
    IN sorted[(n + 1) \div 2] + sorted[(n \div 2) + 1]

\* Line 137-138: explorer = k_returner > median, per row of the file.
Explorer(rows) ==
    LET median2 == TwiceMedian([i \in DOMAIN rows |-> rows[i].k_returner])
    IN [i \in DOMAIN rows |-> 2 * rows[i].k_returner > median2]

\* Position of a user in the (duplicate-free) index of the file.
RowOf(rows, user) == CHOOSE i \in DOMAIN rows : rows[i].user_id = user

\* The results of returner_explorers(path_to_returner, graph_features), where
\* k_file is the content of the file at path_to_returner.  Line 140 selects
\* the file's rows by the table's index, in the table's order, and raises
\* KeyError when an identifier of the table is not in the file; line 141
\* writes the flags into a "cluster" column of graph_features itself; line 144
\* runs cluster_characteristics on it, whose exception propagates.  Lines
\* 146-151 only print.
returner_explorers(k_file, graph_features) ==
    LET k_returners == FillNa(k_file)
        explorer == Explorer(k_returners)
        users == {k_returners[i].user_id : i \in DOMAIN k_returners}
        aligned == [i \in DOMAIN graph_features.index |->
                       explorer[RowOf(k_returners, graph_features.index[i])]]
        flags == [i \in DOMAIN graph_features.index |-> IF aligned[i] THEN 1 ELSE 0]
        mutated == SetColumn(graph_features, "cluster", flags).table
    IN IF \E i \in DOMAIN graph_features.index : graph_features.index[i] \notin users
       THEN {[error |-> "KeyError", tests |-> NoTests, graph_features |-> graph_features]}
       ELSE {[error |-> r.error, tests |-> r.tests, graph_features |-> mutated]
             : r \in cluster_characteristics(mutated, NoLabels)}

\* The returner files of the model: up to NRows rows, distinct user ids of
\* 1..NRows in any order, k_returner 1 or missing.
KFiles ==
    UNION { { [i \in 1..n |-> KRow(ids[i], nans[i], IF nans[i] THEN 0 ELSE 1)]
              : ids \in {f \in SeqsOfLen(1..NRows, n) : \A a, b \in 1..n : a # b => f[a] # f[b]},
                nans \in SeqsOfLen(BOOLEAN, n) }
            : n \in 1..NRows }

\* The feature tables handed to returner_explorers: one interpreted or one
\* other column, users 1..NRows - 1.
GraphFeatureTables ==
    TablesOver(<<"cycle_length_mu">>, {0, 1}, NRows - 1)
        \cup TablesOver(<<"degree_beta">>, {0, 1}, NRows - 1)

InitRE ==
    /\ pc = "ready"
    /\ op = "returner_explorers"
    /\ args \in [path_to_returner : KFiles, graph_features : GraphFeatureTables]
    /\ post = args
    /\ lib = NoTests
    /\ out = [error |-> "none", value |-> NoCharacteristics]

CallReturnerExplorers ==
    /\ pc = "ready"
    /\ op = "returner_explorers"
    /\ \E r \in returner_explorers(args.path_to_returner, args.graph_features) :
          /\ out' = [error |-> r.error, value |-> NoCharacteristics]
          /\ lib' = r.tests
          /\ post' = [args EXCEPT !.graph_features = r.graph_features]
    /\ pc' = "done"
    /\ UNCHANGED <<op, args>>

NextRE == CallReturnerExplorers

SpecRE == InitRE /\ [][NextRE]_vars

(***************************************************************************)
(* Properties of returner_explorers.                                       *)
(***************************************************************************)
REDone == pc = "done" /\ op = "returner_explorers"

\* C7: no analysis operation changes the table or array passed to it: after
\* the call every argument has the rows, columns and values it had before.
C7_ArgumentsUnchanged == pc = "done" => post = args

\* The user identifiers of the returner file, in file order.
REFileUsers ==
    [i \in DOMAIN args.path_to_returner |-> args.path_to_returner[i].user_id]

\* C9: when the user identifiers of the labels do not match those of the
\* feature table (other identifiers, or another order), the attaching
\* operation ends in an error.  (Stated for the calls whose statistical tests
\* all returned a p-value, so that the only possible error is the alignment's.)
C9_MismatchIsAnError ==
    (/\ REDone
     /\ REFileUsers # args.graph_features.index
     /\ \A t \in DOMAIN lib : lib[t].kind = "value")
        => out.error # "none"

(***************************************************************************)
(* get_important_features (analyze_graph_vs_raw.py)                        *)
(***************************************************************************)
\* Column names of the raw feature tables.
FeatureColumns ==
    <<"degree_beta", "journey_length", "mean_clustering_coeff",
      "mean_trip_distance", "median_trip_distance", "transition_beta">>

\* The results np.argsort can return for a: the index sequences (0-based, as
\* numpy's) that put a in non-decreasing order; the order of equal values is
\* left to the sorting algorithm.
np_argsort(a) ==
    { perm \in [DOMAIN a -> 0..(Len(a) - 1)] :
        /\ \A i, j \in DOMAIN a : i # j => perm[i] # perm[j]
        /\ \A i \in 1..(Len(a) - 1) : a[perm[i] + 1] <= a[perm[i + 1] + 1] }

\* Python slice s[start:] : a negative start counts from the end, and a start
\* outside the sequence is clipped.
SliceFrom(s, start) ==
    LET from == IF start < 0
                THEN (IF Len(s) + start < 0 THEN 0 ELSE Len(s) + start)
                ELSE (IF start > Len(s) THEN Len(s) ELSE start)
    IN SubSeq(s, from + 1, Len(s))

\* s[-n:] as Python evaluates it.
LastN(s, n) == SliceFrom(s, 0 - n)

np_flip(s) == [i \in DOMAIN s |-> s[Len(s) + 1 - i]]

\* Fancy indexing a[inds] with 0-based indices.
TakeAt(a, inds) == [i \in DOMAIN inds |-> a[inds[i] + 1]]

Methods == {"tree", "forest"}

\* The results of get_important_features for a table with the given columns;
\* feature_importances is what the fitted forest or tree reports (one score
\* per column), sorted is the argsort result.
get_important_features(columns, feature_importances, sorted, n_important, method) ==
    IF method \notin Methods
    THEN [error |-> "AssertionError", names |-> <<>>, scores |-> <<>>]
    ELSE LET important_feature_inds == np_flip(LastN(sorted, n_important))
         IN [error |-> "none",
             names |-> TakeAt(columns, important_feature_inds),
             scores |-> TakeAt(feature_importances, important_feature_inds)]

InitGIF ==
    /\ pc = "ready"
    /\ op = "get_important_features"
    /\ \E m \in 1..MaxFeatures :
          args \in [columns : {SubSeq(FeatureColumns, 1, m)},
                    n_important : 0..(MaxFeatures + 1),
                    method : Methods \cup {"kmeans"}]
    /\ post = args
    /\ lib = <<>>
    /\ out = [error |-> "none", names |-> <<>>, scores |-> <<>>]

CallGetImportantFeatures ==
    /\ pc = "ready"
    /\ op = "get_important_features"
    /\ \E fi \in SeqsOfLen(0..MaxImportance, Len(args.columns)) :
          \E sorted \in np_argsort(fi) :
              /\ out' = get_important_features(args.columns, fi, sorted,
                                               args.n_important, args.method)
              /\ lib' = IF args.method \in Methods THEN fi ELSE <<>>
    /\ post' = args
    /\ pc' = "done"
    /\ UNCHANGED <<op, args>>

NextGIF == CallGetImportantFeatures

SpecGIF == InitGIF /\ [][NextGIF]_vars

(***************************************************************************)
(* Properties of get_important_features.                                   *)
(***************************************************************************)
GIFReturned == pc = "done" /\ op = "get_important_features" /\ args.method \in Methods

\* The importance of a named feature, as the fitted model reported it.
GIFImportance(name) ==
    lib[CHOOSE i \in DOMAIN args.columns : args.columns[i] = name]

\* C4: for both methods, M features and N >= 0, the call returns min(N, M)
\* distinct features with their scores, the scores non-increasing, each score
\* the importance of the feature beside it, and no omitted feature has a
\* strictly higher importance than a returned one.
C4_TopN ==
    GIFReturned =>
        LET M == Len(args.columns)
            N == args.n_important
        IN /\ out.error = "none"
           /\ Len(out.names) = (IF N < M THEN N ELSE M)
           /\ Len(out.scores) = Len(out.names)
           /\ \A i, j \in DOMAIN out.names : i # j => out.names[i] # out.names[j]
           /\ \A i \in DOMAIN out.names :
                 /\ out.names[i] \in Range(args.columns)
                 /\ out.scores[i] = GIFImportance(out.names[i])
           /\ \A i \in 1..(Len(out.scores) - 1) : out.scores[i] >= out.scores[i + 1]
           /\ \A name \in Range(args.columns) \ Range(out.names) :
                 \A i \in DOMAIN out.scores : GIFImportance(name) <= out.scores[i]

(***************************************************************************)
(* load_all (analyze_across_datasets.py)                                   *)
(***************************************************************************)
StudyNames == {"gc1", "gc2"}

\* A row of a per-study table: the study whose file it was read from and its
\* user id (the feature values play no part in load_all).
FileRow(study, user) == [origin |-> study, user_id |-> user]

\* pd.read_csv of one study's file: one row per user id listed in the file.
ReadCsv(study, users) == [i \in DOMAIN users |-> FileRow(study, users[i])]

\* raw_features[raw_features.index.isin(graph_features.index)]
FilterIsIn(raw, graph) ==
    SelectMask(raw, [i \in DOMAIN raw |->
                        \E j \in DOMAIN graph : graph[j].user_id = raw[i].user_id])

\* n copies of x.
Repeat(x, n) == [i \in 1..n |-> x]

\* The loop of lines 15-29 from study number i on: the per-study tables
\* appended to all_together (already concatenated) and study_labels.
RECURSIVE LoadLoop(_, _, _, _)
LoadLoop(STUDIES, files, type, i) ==
    IF i > Len(STUDIES) THEN [tables |-> 0, all_together |-> <<>>, study_labels |-> <<>>]
    ELSE LET study == STUDIES[i]
             graph_features == ReadCsv(study, files[study].graph)
             raw_features == FilterIsIn(ReadCsv(study, files[study].raw), graph_features)
             rest == LoadLoop(STUDIES, files, type, i + 1)
         IN [tables |-> rest.tables + (IF type \in {"graph", "raw"} THEN 1 ELSE 0),
             all_together |-> (IF type = "graph" THEN graph_features
                               ELSE IF type = "raw" THEN raw_features
                               ELSE <<>>) \o rest.all_together,
             study_labels |-> Repeat(study, Len(graph_features)) \o rest.study_labels]

\* load_all: pd.concat raises ValueError on an empty list of tables, and the
\* assignment of the "study" column raises ValueError when study_labels has
\* not one entry per row.
load_all(STUDIES, files, type) ==
    LET loaded == LoadLoop(STUDIES, files, type, 1)
    IN IF loaded.tables = 0 \/ Len(loaded.study_labels) # Len(loaded.all_together)
       THEN [error |-> "ValueError", rows |-> <<>>]
       ELSE [error |-> "none",
             rows |-> [i \in DOMAIN loaded.all_together |->
                          [origin |-> loaded.all_together[i].origin,
                           user_id |-> loaded.all_together[i].user_id,
                           study |-> loaded.study_labels[i]]]]

\* The files of one study: the graph table lists users 1..n once each; the raw
\* table lists up to MaxUsers users, possibly some twice or some missing.
StudyFiles ==
    [graph : {UserIndex(n) : n \in 0..MaxUsers},
     raw : UNION {SeqsOfLen(1..MaxUsers, n) : n \in 0..MaxUsers}]

StudyLists ==
    {<<>>} \cup {<<a>> : a \in StudyNames}
           \cup {<<ab[1], ab[2]>> : ab \in {x \in StudyNames \X StudyNames : x[1] # x[2]}}

InitLoad ==
    /\ pc = "ready"
    /\ op = "load_all"
    /\ args \in [STUDIES : StudyLists,
                 files : [StudyNames -> StudyFiles],
                 type : {"graph", "raw"}]
    /\ post = args
    /\ lib = <<>>
    /\ out = [error |-> "none", rows |-> <<>>]

CallLoadAll ==
    /\ pc = "ready"
    /\ op = "load_all"
    /\ out' = load_all(args.STUDIES, args.files, args.type)
    /\ post' = args
    /\ pc' = "done"
    /\ UNCHANGED <<op, args, lib>>

NextLoad == CallLoadAll

SpecLoad == InitLoad /\ [][NextLoad]_vars

(***************************************************************************)
(* Properties of load_all.                                                 *)
(***************************************************************************)
\* Number of rows of the per-study tables the call concatenates.
RECURSIVE LoadRowCount(_)
LoadRowCount(i) ==
    IF i > Len(args.STUDIES) THEN 0
    ELSE LET f == args.files[args.STUDIES[i]]
         IN (IF args.type = "graph" THEN Len(f.graph)
             ELSE Cardinality({k \in DOMAIN f.raw : f.raw[k] \in Range(f.graph)}))
            + LoadRowCount(i + 1)

\* C5: for any list of studies and both types, the table load_all returns has
\* as many rows as the per-study tables it concatenated have together, and
\* the study of every row is the study whose table the row came from.
C5_RowsTaggedBySource ==
    (pc = "done" /\ op = "load_all" /\ out.error = "none") =>
        /\ Len(out.rows) = LoadRowCount(1)
        /\ \A i \in DOMAIN out.rows : out.rows[i].study = out.rows[i].origin

(***************************************************************************)
(* print_chisquare and barplot_clusters (plotting.py)                      *)
(***************************************************************************)
\* Variant of line 206 with np.all: every row has a non-zero entry.
AllRowsNonZero(table, i) == \A r \in DOMAIN table : table[r][i] # 0
\* np.any(contingency_table, axis=0) at column i: some row has a non-zero entry.
AnyRowNonZero(table, i) == \E r \in DOMAIN table : table[r][i] # 0

\* contingency_table[:, np.any(contingency_table, axis=0)]
DropEmptyColumns(table) ==
    [r \in DOMAIN table |->
        SelectMask(table[r], [i \in DOMAIN table[r] |-> AnyRowNonZero(table, i)])]

\* chi2_contingency raises ValueError for a table without columns and for a
\* table with a zero expected frequency (here: a row that sums to zero).
chi2_contingency(table) ==
    IF table[1] = <<>> \/ \E r \in DOMAIN table : SeqSum(table[r]) = 0
    THEN "ValueError" ELSE "none"

\* print_chisquare: the exception, and the table handed to chi2_contingency.
print_chisquare(occ1, occ2) ==
    LET contingency_table == DropEmptyColumns(<<occ1, occ2>>)
    IN [error |-> chi2_contingency(contingency_table),
        occ1 |-> occ1, occ2 |-> occ2,
        contingency_table |-> contingency_table]

\* sum(labels == lab)
CountOf(labels, lab) == Cardinality({i \in DOMAIN labels : labels[i] = lab})

\* barplot_clusters: the counts of every occurring label in the two label
\* lists go to print_chisquare; the normalised counts (line 216-217) divide by
\* the length of each list, which fails for an empty list beside a non-empty
\* one.  The plotting has no effect on the state.
barplot_clusters(labels1, labels2) ==
    LET occuring_labels == np_unique(Range(labels1) \cup Range(labels2))
        occ1_unnormalized == [i \in DOMAIN occuring_labels |-> CountOf(labels1, occuring_labels[i])]
        occ2_unnormalized == [i \in DOMAIN occuring_labels |-> CountOf(labels2, occuring_labels[i])]
    IN IF occuring_labels # <<>> /\ (labels1 = <<>> \/ labels2 = <<>>)
       THEN [error |-> "ZeroDivisionError", occ1 |-> <<>>, occ2 |-> <<>>,
             contingency_table |-> <<>>]
       ELSE print_chisquare(occ1_unnormalized, occ2_unnormalized)

NoChiSquare == [occ1 |-> <<>>, occ2 |-> <<>>, contingency_table |-> <<>>]

InitChi ==
    /\ pc = "ready"
    /\ \/ /\ op = "print_chisquare"
          /\ \E n \in 1..MaxCategories :
                args \in [a : SeqsOfLen(0..MaxCount, n), b : SeqsOfLen(0..MaxCount, n)]
       \/ /\ op = "barplot_clusters"
          /\ \E n1, n2 \in 0..MaxLabels :
                args \in [a : SeqsOfLen(0..(MaxCategories - 1), n1),
                          b : SeqsOfLen(0..(MaxCategories - 1), n2)]
    /\ post = args
    /\ lib = NoChiSquare
    /\ out = [error |-> "none"]

ChiReturn(r) ==
    /\ out' = [error |-> r.error]
    /\ lib' = [occ1 |-> r.occ1, occ2 |-> r.occ2, contingency_table |-> r.contingency_table]
    /\ post' = args
    /\ pc' = "done"
    /\ UNCHANGED <<op, args>>

CallPrintChisquare ==
    /\ pc = "ready"
    /\ op = "print_chisquare"
    /\ ChiReturn(print_chisquare(args.a, args.b))

CallBarplotClusters ==
    /\ pc = "ready"
    /\ op = "barplot_clusters"
    /\ ChiReturn(barplot_clusters(args.a, args.b))

NextChi == CallPrintChisquare \/ CallBarplotClusters

SpecChi == InitChi /\ [][NextChi]_vars

(***************************************************************************)
(* Properties of print_chisquare.                                          *)
(***************************************************************************)
\* print_chisquare ran (directly, or at the end of barplot_clusters).
ChiRan ==
    /\ pc = "done"
    /\ op \in {"print_chisquare", "barplot_clusters"}
    /\ out.error # "ZeroDivisionError"

\* The categories with a non-zero count in at least one of the two vectors.
ChiKept == {i \in DOMAIN lib.occ1 : lib.occ1[i] > 0 \/ lib.occ2[i] > 0}

\* The k-th kept category, in the original order.
ChiKth(k) == CHOOSE i \in ChiKept : Cardinality({j \in ChiKept : j < i}) = k - 1

\* C8: the table handed to the chi-square test holds exactly the categories
\* with a non-zero count in at least one of the two vectors, in their original
\* order and with their original counts.
C8_DropsOnlyEmptyCategories ==
    ChiRan =>
        /\ op = "print_chisquare" => lib.occ1 = args.a /\ lib.occ2 = args.b
        /\ Len(lib.contingency_table) = 2
        /\ \A r \in 1..2 : Len(lib.contingency_table[r]) = Cardinality(ChiKept)
        /\ \A k \in 1..Cardinality(ChiKept) :
              /\ lib.contingency_table[1][k] = lib.occ1[ChiKth(k)]
              /\ lib.contingency_table[2][k] = lib.occ2[ChiKth(k)]

\* A call in which one category is empty in both vectors (dropped), one is
\* empty in the first vector only and one in the second only (both kept).
C8_Witness ==
    /\ ChiRan
    /\ op = "print_chisquare"
    /\ \E i \in DOMAIN lib.occ1 : lib.occ1[i] = 0 /\ lib.occ2[i] = 0
    /\ \E i \in DOMAIN lib.occ1 : lib.occ1[i] = 0 /\ lib.occ2[i] > 0
    /\ \E i \in DOMAIN lib.occ1 : lib.occ1[i] > 0 /\ lib.occ2[i] = 0
    /\ Len(lib.contingency_table[1]) = 2

(***************************************************************************)
(* normalize_and_cluster (clustering.py)                                   *)
(*                                                                         *)
(* A feature matrix is a sequence of rows of integers.  With N rows, column *)
(* sum S and V = N * sum(x^2) - S^2, the mean is S/N and the standard      *)
(* deviation sqrt(V)/N, so the normalised entry (x - mean)/std is          *)
(* (N*x - S)/sqrt(V): the normalised matrix is kept as the numerators      *)
(* num = N*x - S and the column values V.                                  *)
(***************************************************************************)
KMeansMaxIter == 300

Column(matrix, j) == [i \in DOMAIN matrix |-> matrix[i][j]]

RECURSIVE SeqProd(_)
SeqProd(s) == IF s = <<>> THEN 1 ELSE Head(s) * SeqProd(Tail(s))

\* Lines 7-9.
Normalize(feature_matrix) ==
    LET N == Len(feature_matrix)
        M == Len(feature_matrix[1])
        S == [j \in 1..M |-> SeqSum(Column(feature_matrix, j))]
        Q == [j \in 1..M |->
                 SeqSum([i \in 1..N |-> feature_matrix[i][j] * feature_matrix[i][j]])]
    IN [num |-> [i \in 1..N |-> [j \in 1..M |-> N * feature_matrix[i][j] - S[j]]],
        var |-> [j \in 1..M |-> N * Q[j] - S[j] * S[j]]]

\* A centre of k-means is the mean of n normalised rows: it is kept as n and
\* the sum of their numerators.
CentreAt(normed, i) == [n |-> 1, sum |-> normed.num[i]]

\* Squared distance of normalised row i to centre c, times c.n^2 and the
\* product of all column values V (both positive).
Dist2(normed, i, c) ==
    SeqSum([j \in DOMAIN normed.var |->
               (c.n * normed.num[i][j] - c.sum[j]) * (c.n * normed.num[i][j] - c.sum[j])
                   * SeqProd([l \in DOMAIN normed.var |->
                                 IF l = j THEN 1 ELSE normed.var[l]])])

StrictlyCloser(normed, i, c, d) ==
    Dist2(normed, i, c) * d.n * d.n < Dist2(normed, i, d) * c.n * c.n

\* The label of row i: the first of the nearest centres, numbered from 0.
Assign(normed, centres, i) ==
    (CHOOSE c \in DOMAIN centres :
        /\ \A d \in DOMAIN centres : ~StrictlyCloser(normed, i, centres[d], centres[c])
        /\ \A d \in DOMAIN centres : d < c => StrictlyCloser(normed, i, centres[c], centres[d]))
    - 1

AssignAll(normed, centres) == [i \in DOMAIN normed.num |-> Assign(normed, centres, i)]

\* The centres of a labelling: the mean of each cluster's rows; a cluster
\* without rows keeps its centre.
Update(normed, centres, labels) ==
    [c \in DOMAIN centres |->
        LET members == {i \in DOMAIN labels : labels[i] = c - 1}
        IN IF members = {} THEN centres[c]
           ELSE [n |-> Cardinality(members),
                 sum |-> [j \in DOMAIN normed.var |->
                             SeqSum(SelectMask(Column(normed.num, j),
                                               [i \in DOMAIN labels |-> i \in members]))]]]

\* Lloyd's iteration from the given centres, until the centres stay or
\* max_iter is reached; the result is labels_.
RECURSIVE Lloyd(_, _, _)
Lloyd(normed, centres, iter) ==
    LET labels == AssignAll(normed, centres)
        moved == Update(normed, centres, labels)
    IN IF moved = centres \/ iter >= KMeansMaxIter THEN labels
       ELSE Lloyd(normed, moved, iter + 1)

\* KMeans(n_clusters, random_state=0).fit(normed).labels_ ; init lists the
\* rows the seeded initialisation picks as first centres.  A matrix with NaN
\* entries (a column of zero deviation) and fewer rows than clusters raise
\* ValueError.
KMeansFit(normed, n_clusters, init) ==
    IF \E j \in DOMAIN normed.var : normed.var[j] = 0 THEN [error |-> "ValueError", labels |-> <<>>]
    ELSE IF Len(normed.num) < n_clusters THEN [error |-> "ValueError", labels |-> <<>>]
    ELSE [error |-> "none",
          labels |-> Lloyd(normed, [c \in DOMAIN init |-> CentreAt(normed, init[c])], 1)]

\* The initialisations of k-means over n rows: n_clusters distinct rows.
Inits(n, n_clusters) ==
    IF n < n_clusters THEN {<<>>}
    ELSE {f \in SeqsOfLen(1..n, n_clusters) : \A a, b \in DOMAIN f : a # b => f[a] # f[b]}

\* Variant of lines 6-13 with the cluster count left at its default of 2.
NormalizeAndClusterDefaultK(feature_matrix, n_clusters, init) ==
    KMeansFit(Normalize(feature_matrix), 2,
              IF Len(init) >= 2 THEN SubSeq(init, 1, 2)
              ELSE IF init = <<>> THEN <<1, 2>>
              ELSE <<init[1], CHOOSE i \in DOMAIN feature_matrix : i # init[1]>>)
\* Lines 6-13.
normalize_and_cluster(feature_matrix, n_clusters, init) ==
    KMeansFit(Normalize(feature_matrix), n_clusters, init)

\* The feature matrices of the model: NRows rows; one column with values
\* 0..MaxVal, or two columns with values 0, 1.
FeatureMatrices ==
    SeqsOfLen(SeqsOfLen(0..MaxVal, 1), NRows) \cup SeqsOfLen(SeqsOfLen({0, 1}, 2), NRows)

InitKM ==
    /\ pc = "ready"
    /\ op = "normalize_and_cluster"
    /\ args \in [feature_matrix : FeatureMatrices, n_clusters : 1..(NRows + 1)]
    /\ post = args
    /\ lib = <<>>
    /\ out = [error |-> "none", labels |-> <<>>]

CallNormalizeAndCluster ==
    /\ pc = "ready"
    /\ op = "normalize_and_cluster"
    /\ \E init \in Inits(Len(args.feature_matrix), args.n_clusters) :
          /\ out' = normalize_and_cluster(args.feature_matrix, args.n_clusters, init)
          /\ lib' = init
    /\ post' = args
    /\ pc' = "done"
    /\ UNCHANGED <<op, args>>

NextKM == CallNormalizeAndCluster

SpecKM == InitKM /\ [][NextKM]_vars

(***************************************************************************)
(* Properties of normalize_and_cluster.                                    *)
(***************************************************************************)
\* The call's matrix has at least k rows and no constant column.
KMPrecondition ==
    /\ pc = "done"
    /\ op = "normalize_and_cluster"
    /\ Len(args.feature_matrix) >= args.n_clusters
    /\ \A j \in DOMAIN args.feature_matrix[1] :
          \E a, b \in DOMAIN args.feature_matrix :
              args.feature_matrix[a][j] # args.feature_matrix[b][j]

\* C6: for a matrix with at least k rows and no constant column, the call
\* returns one label per row, each an integer in [0, k), the i-th label being
\* the label of the i-th row: equal rows have equal labels, and in a matrix of
\* one column a row whose value lies between the values of two rows of one
\* cluster is in that cluster too.
C6_OneLabelPerRow ==
    KMPrecondition =>
        LET F == args.feature_matrix
        IN /\ out.error = "none"
           /\ Len(out.labels) = Len(F)
           /\ \A i \in DOMAIN out.labels : out.labels[i] \in 0..(args.n_clusters - 1)
           /\ \A a, b \in DOMAIN F : F[a] = F[b] => out.labels[a] = out.labels[b]
           /\ Len(F[1]) = 1 =>
                 \A a, b, c \in DOMAIN F :
                     (F[a][1] <= F[b][1] /\ F[b][1] <= F[c][1]
                        /\ out.labels[a] = out.labels[c])
                     => out.labels[b] = out.labels[a]

\* A call with k = 2 on a matrix of two columns that returns both labels.
C6_Witness ==
    /\ KMPrecondition
    /\ args.n_clusters = 2
    /\ Len(args.feature_matrix[1]) = 2
    /\ Range(out.labels) = {0, 1}

(***************************************************************************)
(* draw_smopy_basemap (activity_graphs_utils.py), statement by statement.  *)
(*                                                                         *)
(* args is the call's arguments (the graph G and ax), post the local       *)
(* variables of the call in progress, lib the smopy.Map calls made so far  *)
(* with what each did, out what the call printed and its return value or   *)
(* exception.  A local variable is <<>> while unbound and <<v>> once bound *)
(* to v.                                                                   *)
(***************************************************************************)
MaxCoord == 1
MaxNodes == 2
MaxPartial == 1

Max(S) == CHOOSE x \in S : \A y \in S : y <= x

Unbound == <<>>
Bound(v) == <<v>>

\* The tile server of line 35 and the one smopy.Map uses when none is given.
CartoTileserver == "http://tile.basemaps.cartocdn.com/light_all/{z}/{x}/{y}@2x.png"
DefaultTileserver == "default"

\* What a call of smopy.Map does: it downloads the tiles of the box and
\* returns a map, or the download raises IncompleteRead (with the number of
\* bytes read so far), or it raises another exception (URLError).
FetchOk == [type |-> "ok", partial |-> 0]
IncompleteRead(partial) == [type |-> "IncompleteRead", partial |-> partial]
URLError == [type |-> "URLError", partial |-> 0]
FetchOutcomes == {FetchOk, URLError} \cup {IncompleteRead(n) : n \in 0..MaxPartial}

Map(box, tileserver) == [box |-> box, tileserver |-> tileserver]
MapCall(box, tileserver, result) == [box |-> box, tileserver |-> tileserver, result |-> result]

\* Lines 24-31: the bounding box of the nodes' coordinates <<lon, lat>>.
BoundingBox(nodes) ==
    [lat_min |-> Min({n[2] : n \in nodes}), lon_min |-> Min({n[1] : n \in nodes}),
     lat_max |-> Max({n[2] : n \in nodes}), lon_max |-> Max({n[1] : n \in nodes})]

\* Line 33: the condition of the while loop.  The variant admits a fourth
\* attempt.
WhileConditionFour(attempts) == attempts < 4
WhileCondition(attempts) == attempts < 3

\* The graphs of the model: up to MaxNodes nodes with coordinates in
\* 0..MaxCoord, and G.graph with or without the key 'user_id'.
Coordinates == (0..MaxCoord) \X (0..MaxCoord)
Graphs ==
    [nodes : {N \in SUBSET Coordinates : Cardinality(N) <= MaxNodes},
     graph : {{}} \cup {{<<"user_id", u>>} : u \in 1..MaxUsers}]

NoOutput == [error |-> "none", printed |-> <<>>, ret |-> <<>>]

InitMap ==
    /\ pc = "ready"
    /\ op = "draw_smopy_basemap"
    /\ args \in [G : Graphs, ax : {"None", "axes"}]
    /\ post = [box |-> Unbound, attempts |-> Unbound, smap |-> Unbound, e |-> Unbound]
    /\ lib = <<>>
    /\ out = NoOutput

Raise(error) ==
    /\ out' = [out EXCEPT !.error = error]
    /\ pc' = "raised"

\* Lines 24-32: min() of an empty list raises ValueError; otherwise the box is
\* computed and attempts = 0.
ComputeBox ==
    /\ pc = "ready"
    /\ op = "draw_smopy_basemap"
    /\ IF args.G.nodes = {}
       THEN Raise("ValueError") /\ UNCHANGED post
       ELSE /\ post' = [post EXCEPT !.box = Bound(BoundingBox(args.G.nodes)),
                                    !.attempts = Bound(0)]
            /\ pc' = "try_or_leave"
            /\ UNCHANGED out
    /\ UNCHANGED <<op, args, lib>>

\* Line 33: while attempts < 3.
While ==
    /\ pc = "try_or_leave"
    /\ pc' = IF WhileCondition(post.attempts[1]) THEN "try" ELSE "if"
    /\ UNCHANGED <<op, args, post, lib, out>>

\* Lines 34-37: the fetch from the tile server; break on success, the except
\* clause on IncompleteRead (which binds e); any other exception propagates.
Try ==
    /\ pc = "try"
    /\ \E result \in FetchOutcomes :
          /\ lib' = Append(lib, MapCall(post.box[1], CartoTileserver, result))
          /\ IF result.type = "ok"
             THEN /\ post' = [post EXCEPT !.smap = Bound(Map(post.box[1], CartoTileserver))]
                  /\ pc' = "if"
                  /\ UNCHANGED out
             ELSE IF result.type = "IncompleteRead"
             THEN /\ post' = [post EXCEPT !.e = Bound(result)]
                  /\ pc' = "except"
                  /\ UNCHANGED out
             ELSE Raise(result.type) /\ UNCHANGED post
    /\ UNCHANGED <<op, args>>

\* Lines 37-39: attempts += 1; leaving the clause of "except ... as e" unbinds
\* e (Python 3 deletes the name at the end of the clause).
Except ==
    /\ pc = "except"
    /\ post' = [post EXCEPT !.attempts = Bound(post.attempts[1] + 1), !.e = Unbound]
    /\ pc' = "try_or_leave"
    /\ UNCHANGED <<op, args, lib, out>>

\* G.graph['user_id'].
UserId(G) == {kv[2] : kv \in {x \in G.graph : x[1] = "user_id"}}

\* Lines 40-42: if attempts == 3, print(G.graph['user_id'], e) and build the
\* map with the default tile server.  The arguments of print are evaluated in
\* order: a missing key raises KeyError, an unbound e UnboundLocalError.
IfExhausted ==
    /\ pc = "if"
    /\ IF post.attempts[1] # 3
       THEN /\ pc' = "show"
            /\ UNCHANGED <<post, lib, out>>
       ELSE IF UserId(args.G) = {}
       THEN Raise("KeyError") /\ UNCHANGED <<post, lib>>
       ELSE IF post.e = Unbound
       THEN Raise("UnboundLocalError") /\ UNCHANGED <<post, lib>>
       ELSE \E result \in FetchOutcomes, user \in UserId(args.G) :
              LET printed == Append(out.printed, <<user, post.e[1]>>)
              IN /\ lib' = Append(lib, MapCall(post.box[1], DefaultTileserver, result))
                 /\ IF result.type = "ok"
                    THEN /\ post' = [post EXCEPT
                                       !.smap = Bound(Map(post.box[1], DefaultTileserver))]
                         /\ out' = [out EXCEPT !.printed = printed]
                         /\ pc' = "show"
                    ELSE /\ out' = [out EXCEPT !.printed = printed, !.error = result.type]
                         /\ pc' = "raised"
                         /\ UNCHANGED post
    /\ UNCHANGED <<op, args>>

\* smap.show_mpl(figsize=figsize, ax=ax): draws on ax, or on new axes if ax is
\* None, and returns the axes.
show_mpl(smap, ax) == IF ax = "None" THEN "new axes" ELSE ax

\* Lines 46-48: reading smap while it is unbound raises UnboundLocalError.
ShowAndReturn ==
    /\ pc = "show"
    /\ IF post.smap = Unbound
       THEN Raise("UnboundLocalError")
       ELSE /\ out' = [out EXCEPT !.ret = <<show_mpl(post.smap[1], args.ax), post.smap[1]>>]
            /\ pc' = "done"
    /\ UNCHANGED <<op, args, post, lib>>

NextMap == ComputeBox \/ While \/ Try \/ Except \/ IfExhausted \/ ShowAndReturn

SpecMap == InitMap /\ [][NextMap]_vars

\* The interpreter runs the next statement of a call in progress.
SpecMapLive == SpecMap /\ WF_vars(NextMap)

(***************************************************************************)
(* Properties of draw_smopy_basemap.                                       *)
(***************************************************************************)
\* The call has returned or raised.
MapEnded == op = "draw_smopy_basemap" /\ pc \in {"done", "raised"}

\* The fetches made from the tile server of line 35, and those made from the
\* default tile server, in the order they were made.
TileFetches == SelectSeq(lib, LAMBDA c : c.tileserver = CartoTileserver)
DefaultFetches == SelectSeq(lib, LAMBDA c : c.tileserver = DefaultTileserver)

\* At most three fetches from the tile server were made, and each one but the
\* last failed with IncompleteRead: no fetch follows a success or another
\* exception.
MapRetriesBounded ==
    /\ Len(TileFetches) <= 3
    /\ \A k \in 1..(Len(TileFetches) - 1) : TileFetches[k].result.type = "IncompleteRead"
    /\ pc \in {"try", "except"} => Len(TileFetches) <= 2 + (IF pc = "except" THEN 1 ELSE 0)

\* C11: whatever the fetches do, the retry loop fetches from the tile server
\* at most three times, fetches again only after an IncompleteRead, never
\* after a success, and the call ends (it returns or raises).
C11_BoundedRetry == [](op = "draw_smopy_basemap" => MapRetriesBounded) /\ <>MapEnded

\* All three attempts failed with IncompleteRead.
MapExhausted ==
    /\ Len(TileFetches) = 3
    /\ \A k \in 1..3 : TileFetches[k].result.type = "IncompleteRead"

\* A call that ended after three failed attempts.
C11_Witness == MapEnded /\ MapExhausted

\* C12: a call whose three attempts failed with IncompleteRead (the graph
\* having a user id) prints the user id with the last error, builds the map
\* once with the default tile server and, that succeeding, returns the axes
\* and that map; and smap is bound whenever control reaches line 46.
C12_ReportsAndFallsBack ==
    /\ (MapEnded /\ MapExhausted /\ UserId(args.G) # {}) =>
          /\ \E user \in UserId(args.G) :
                out.printed = <<<<user, TileFetches[3].result>>>>
          /\ Len(DefaultFetches) = 1
          /\ DefaultFetches[1].result.type = "ok" =>
                /\ pc = "done"
                /\ out.ret = <<show_mpl(post.smap[1], args.ax),
                               Map(post.box[1], DefaultTileserver)>>
    /\ (op = "draw_smopy_basemap" /\ pc = "show") => post.smap # Unbound

(***************************************************************************)
(* sort_clusters_into_groups (analyze_graph_vs_raw.py)                     *)
(*                                                                         *)
(* A dict is kept as its set of <<key, value>> items, as in                *)
(* cluster_characteristics; groups is kept in the order of its items.      *)
(***************************************************************************)
MaxTags == 1

groups ==
    <<[name |-> "travelers",
       group |-> {<<"mean_distance_random_walk", "high">>,
                  <<"cycle_length_mu", "high">>,
                  <<"core_periphery_random_walk", "high">>,
                  <<"ratio_nodes_random_walk", "low">>}],
      [name |-> "city_people",
       group |-> {<<"mean_distance_random_walk", "low">>,
                  <<"cycle_length_mu", "high">>,
                  <<"cycle_length_sigma", "low">>,
                  <<"core_periphery_random_walk", "low">>,
                  <<"ratio_nodes_random_walk", "high">>,
                  <<"simple_powerlaw_transitions", "low">>}],
      [name |-> "unpredictable",
       group |-> {<<"cycle_length_mu", "high">>,
                  <<"core_periphery_random_walk", "high">>,
                  <<"simple_powerlaw_transitions", "high">>,
                  <<"ratio_nodes_random_walk", "low">>}],
      [name |-> "inactive",
       group |-> {<<"mean_distance_random_walk", "low">>,
                  <<"cycle_length_mu", "low">>,
                  <<"cycle_length_sigma", "high">>,
                  <<"core_periphery_random_walk", "low">>,
                  <<"ratio_nodes_random_walk", "high">>}]>>

\* key in d, and d[key].
DictHas(d, key) == \E e \in d : e[1] = key
DictGet(d, key) == (CHOOSE e \in d : e[1] = key)[2]

\* Variant of lines 99-103: a characteristic the group does not define counts
\* as different too.
DifferentOrUndefined(group, key, val) == ~DictHas(group, key) \/ DictGet(group, key) # val
\* Lines 99-103: the characteristic sets is_group to False when the group
\* defines key with another value; a key the group lacks is passed over.
Different(group, key, val) == DictHas(group, key) /\ DictGet(group, key) # val

\* Lines 96-103: is_group after the loop over the cluster's characteristics.
IsGroup(group, cluster_characteristics_) ==
    \A e \in cluster_characteristics_ : ~Different(group, e[1], e[2])

\* Lines 95-106: the loop over the groups from the g-th on; the line printed
\* for the first group the cluster is part of, then break.
RECURSIVE GroupLoop(_, _, _)
GroupLoop(cluster, cluster_characteristics_, g) ==
    IF g > Len(groups) THEN <<>>
    ELSE IF IsGroup(groups[g].group, cluster_characteristics_)
    THEN <<<<cluster, groups[g].name>>>>
    ELSE GroupLoop(cluster, cluster_characteristics_, g + 1)

\* Line 93: the loop over the clusters, in the order cluster_characteristics
\* inserted them (ascending).
RECURSIVE SortLoop(_, _, _)
SortLoop(characteristics, clusters, i) ==
    IF i > Len(clusters) THEN <<>>
    ELSE GroupLoop(clusters[i], characteristics[clusters[i]], 1)
         \o SortLoop(characteristics, clusters, i + 1)

\* What sort_clusters_into_groups(characteristics) prints: the header of line
\* 92 and one <<cluster, group name>> per line of line 105.  It returns None.
sort_clusters_into_groups(characteristics) ==
    [error |-> "none",
     header |-> "--------- Sorting cluster into predefined groups ------------",
     lines |-> SortLoop(characteristics, np_unique(DOMAIN characteristics), 1)]

\* The characteristics of the model: the tags cluster_characteristics can
\* record are those of the features of interpret_dict.  No cluster, one cluster
\* with any tags, or two clusters of at most MaxTags tags each.
Tags == interpret_dict \X {"high", "low"}
TagDicts == {d \in SUBSET Tags : \A e, f \in d : e[1] = f[1] => e = f}
Characteristics ==
    {NoCharacteristics}
      \cup [{0} -> TagDicts]
      \cup [{0, 1} -> {d \in TagDicts : Cardinality(d) <= MaxTags}]

InitSort ==
    /\ pc = "ready"
    /\ op = "sort_clusters_into_groups"
    /\ args \in [characteristics : Characteristics]
    /\ post = args
    /\ lib = <<>>
    /\ out = [error |-> "none", header |-> "", lines |-> <<>>]

CallSortClustersIntoGroups ==
    /\ pc = "ready"
    /\ op = "sort_clusters_into_groups"
    /\ out' = sort_clusters_into_groups(args.characteristics)
    /\ post' = args
    /\ pc' = "done"
    /\ UNCHANGED <<op, args, lib>>

NextSort == CallSortClustersIntoGroups

SpecSort == InitSort /\ [][NextSort]_vars

(***************************************************************************)
(* Properties of sort_clusters_into_groups.                                *)
(***************************************************************************)
SortDone == pc = "done" /\ op = "sort_clusters_into_groups"

\* The groups (by position in declaration order) with which no tag of
\* cluster c conflicts: no feature that the group defines is tagged with the
\* opposite direction.
SortFits(c) ==
    {g \in DOMAIN groups :
        \A tag \in args.characteristics[c], def \in groups[g].group :
            tag[1] = def[1] => tag[2] = def[2]}

\* The group names reported for cluster c, in the order printed.
SortReported(c) == SelectSeq(out.lines, LAMBDA line : line[1] = c)

\* C13: every cluster is reported for at most one group, the first in the
\* order travelers, city_people, unpredictable, inactive with which none of
\* its tags conflicts; a cluster without tags is reported as travelers, and a
\* cluster that conflicts with all four groups is not reported.
C13_FirstFittingGroup ==
    SortDone =>
        /\ <<groups[1].name, groups[2].name, groups[3].name, groups[4].name>>
              = <<"travelers", "city_people", "unpredictable", "inactive">>
        /\ \A i \in DOMAIN out.lines : out.lines[i][1] \in DOMAIN args.characteristics
        /\ \A c \in DOMAIN args.characteristics :
              /\ SortReported(c) =
                    IF SortFits(c) = {} THEN <<>>
                    ELSE <<<<c, groups[Min(SortFits(c))].name>>>>
              /\ args.characteristics[c] = {} => SortReported(c) = <<<<c, "travelers">>>>

\* A call with a tagged cluster that conflicts with all four groups, for which
\* nothing is printed.
C13_Witness ==
    /\ SortDone
    /\ \E c \in DOMAIN args.characteristics :
          /\ args.characteristics[c] # {}
          /\ SortFits(c) = {}
          /\ SortReported(c) = <<>>

====
